---- MODULE Spec2Model ----
(***************************************************************************)
(* A model of de4rec's dataset builder and retrieval (src/de4rec/train.py): *)
(* DualEncoderDatasets (make_pos_distributions, neg_choice run by a thread  *)
(* pool, create_dataset, the seeded train/eval split) and DualEncoderModel  *)
(* (forward, recommend_topk_by_user_ids, recommend_topk_by_item_ids).       *)
(***************************************************************************)
EXTENDS Integers, Sequences, FiniteSets, TLC

\* ------------------------------------------------------------------ bounds
\* Longest interaction log given to DualEncoderDatasets.
MaxInteractions == 2
\* Largest neg_per_sample passed to split.
MaxNegPerSample == 2
\* Largest example collection handed to the train/eval split on its own.
MaxExamples == 60
\* Catalogue size: the item ids are 0 .. NumItems - 1.
NumItems == 3
\* Longest user_ids list given to recommend_topk_by_user_ids.
MaxUserIds == 1

\* ---------------------------------------------------------------- fixtures
\* DualEncoderDatasets.users / .items: the ids of the catalogue (the display
\* strings play no part in any operation modelled here).
users == <<0, 1>>
items == [k \in 1..NumItems |-> k - 1]
\* freq_margin values, as exact fractions <<numerator, denominator>> with a
\* power-of-two denominator, so that len * freq_margin is exact in binary
\* floating point and int() of it is the integer floor computed below.
FreqMargins == {<<1, 8>>, <<1, 2>>, <<1, 1>>}
\* Embedding rows the item and user tables are filled with.
ItemVecs == {<<1, 0>>, <<1, 1>>, <<-1, 0>>}
UserVecs == {<<1, 0>>, <<-1, 1>>}

\* What np.random.choice gives: a list, or the ValueError it raises.
ValueError == [raised |-> TRUE, list |-> <<>>]
Drawn(list) == [raised |-> FALSE, list |-> list]
\* Nothing printed; no split made yet.
Silent == <<>>
NoSplit == [train |-> <<>>, eval |-> <<>>]

VARIABLES
    interactions,          \* DualEncoderDatasets.interactions
    freq_margin,           \* split's argument
    neg_per_sample,        \* split's argument
    pc,                    \* position of the split call
    freq_dist,             \* the array shared by the pool's tasks
    pos_interactions,      \* dict user_id -> item list, in insertion order
    tasks,                 \* one neg_choice call per entry of pos_interactions
    pos_neg_interactions,  \* list(pool.map(...))
    dataset,               \* ListDataset.data
    train_eval,            \* DualEncoderSplit, as index lists into dataset
    prev,                  \* what the previous split call returned
    user_embeddings,       \* DualEncoderModel.user_embeddings.weight
    item_embeddings,       \* DualEncoderModel.item_embeddings.weight
    request,               \* the last call made on the model
    response               \* what that call returned or raised

dataVars == <<interactions, freq_margin, neg_per_sample, pc, freq_dist,
              pos_interactions, tasks, pos_neg_interactions, dataset, train_eval,
              prev>>
modelVars == <<user_embeddings, item_embeddings, request, response>>
vars == <<dataVars, modelVars>>

\* ----------------------------------------------------------------- helpers
Range(s) == {s[k] : k \in 1..Len(s)}

Min(a, b) == IF a <= b THEN a ELSE b

RECURSIVE MaxOf(_)
MaxOf(S) == LET x == CHOOSE y \in S : TRUE
            IN IF S = {x} THEN x
               ELSE LET m == MaxOf(S \ {x}) IN IF x >= m THEN x ELSE m

RECURSIVE SeqsUpTo(_, _)
SeqsUpTo(S, n) ==
    IF n = 0 THEN {<<>>}
    ELSE LET shorter == SeqsUpTo(S, n - 1)
         IN shorter \cup {Append(s, x) : s \in {t \in shorter : Len(t) = n - 1}, x \in S}

\* [v] * n
Repeat(v, n) == [k \in 1..n |-> v]

\* ------------------------------------------------------- DualEncoderDatasets
users_size == MaxOf(Range(users)) + 1
items_size == MaxOf(Range(items)) + 1

ItemIds == 0..(items_size - 1)
UserIds == Range(users)

\* The loop of make_pos_distributions from interaction k on.
RECURSIVE pos_loop(_, _, _, _)
pos_loop(inter, k, freq, pos) ==
    IF k > Len(inter) THEN [freq_dist |-> freq, pos_interactions |-> pos]
    ELSE LET user_id == inter[k][1]
             item_id == inter[k][2]
             seen == {j \in 1..Len(pos) : pos[j][1] = user_id}
             freq2 == [freq EXCEPT ![item_id] = freq[item_id] + 1]
             pos2 == IF seen = {}
                     THEN Append(pos, <<user_id, <<item_id>>>>)
                     ELSE LET j == CHOOSE i \in seen : TRUE
                          IN [pos EXCEPT ![j] = <<user_id, Append(pos[j][2], item_id)>>]
         IN pos_loop(inter, k + 1, freq2, pos2)

make_pos_distributions(inter) ==
    pos_loop(inter, 1, [i \in ItemIds |-> 1], <<>>)

\* set(pos_item_ids)
distinct(pos_item_ids) == Range(pos_item_ids)

\* freq_dist_copy[pos_item_ids] = 0
zero_out(freq, ids) == [i \in DOMAIN freq |-> IF i \in ids THEN 0 ELSE freq[i]]

\* int(len(freq_dist_copy) * freq_margin)
freq_margin_num(len, margin) == (len * margin[1]) \div margin[2]

\* np.argsort: every ascending order of the ids; the order among equal
\* weights is left to the sort the numpy build uses.
RECURSIVE argsort_of(_, _)
argsort_of(w, S) ==
    IF S = {} THEN {<<>>}
    ELSE LET low == {x \in S : \A y \in S : w[x] <= w[y]}
         IN UNION {{<<x>> \o rest : rest \in argsort_of(w, S \ {x})} : x \in low}

argsort(w) == argsort_of(w, DOMAIN w)

\* Python's seq[-m:] for m >= 0: -0 is 0, so m = 0 keeps the whole sequence.
tail_slice(s, m) ==
    IF m = 0 \/ m >= Len(s) THEN s
    ELSE SubSeq(s, Len(s) - m + 1, Len(s))

\* freq_dist_copy[item_id_to_choice] / freq_dist_copy[...].sum(): the
\* probability of position k is the fraction <<weight, sum>>; a zero sum makes
\* every entry NaN.
RECURSIVE SumSeq(_)
SumSeq(s) == IF s = <<>> THEN 0 ELSE Head(s) + SumSeq(Tail(s))

normalize(weights) == [k \in 1..Len(weights) |-> <<weights[k], SumSeq(weights)>>]

\* neg_per_sample * len(pos_item_ids), pos_item_ids being the deduplicated ids
n_samples_wrong(n, ids) == n * Len(ids)
n_samples(n, ids) == n * Cardinality(distinct(ids))

RECURSIVE Arrangements(_, _)
Arrangements(S, n) ==
    IF n = 0 THEN {<<>>}
    ELSE UNION {{<<x>> \o r : r \in Arrangements(S \ {x}, n - 1)} : x \in S}

\* np.random.choice(a, size, replace=True, p): what a draw with replacement gives.
choice_replace(a, p, size) ==
    IF \E k \in 1..Len(p) : p[k][2] = 0 THEN {ValueError}
    ELSE IF size < 0 THEN {ValueError}
    ELSE LET support == {a[k] : k \in {j \in 1..Len(a) : p[j][1] > 0}}
         IN {Drawn(l) : l \in [1..size -> support]}

\* np.random.choice(a, size, replace=False, p): the lists it can return, or
\* ValueError (NaN probabilities, a sample larger than the population, fewer
\* non-zero entries in p than size).
choice(a, p, size) ==
    IF Len(a) = 0 /\ size # 0 THEN {ValueError}
    ELSE IF \E k \in 1..Len(p) : p[k][2] = 0 THEN {ValueError}
    ELSE IF size > Len(a) \/ size < 0 THEN {ValueError}
    ELSE LET support == {a[k] : k \in {j \in 1..Len(a) : p[j][1] > 0}}
         IN IF Cardinality(support) < size THEN {ValueError}
            ELSE {Drawn(l) : l \in Arrangements(support, size)}

\* The try/except of neg_choice: a drawn list is returned; ValueError prints
\* (shape, n_samples) and returns [0] * n_samples.
on_draw_uncaught(drawn, pool, n) ==
    IF drawn.raised
    THEN [returned |-> FALSE, negs |-> <<>>, printed |-> Silent]
    ELSE [returned |-> TRUE, negs |-> drawn.list, printed |-> Silent]
on_draw(drawn, pool, n) ==
    IF drawn.raised
    THEN [returned |-> TRUE, negs |-> Repeat(0, n), printed |-> <<Len(pool), n>>]
    ELSE [returned |-> TRUE, negs |-> drawn.list, printed |-> Silent]

\* neg_choice from the cutoff on (lines 264-275), given the zeroed copy: every
\* outcome it can have, with the pool (item_id_to_choice, as a set) it drew from.
neg_choice_tail(copy, pos_item_ids, margin, n) ==
    UNION {
        LET item_id_to_choice == tail_slice(order, freq_margin_num(items_size, margin))
            weights == [k \in 1..Len(item_id_to_choice) |-> copy[item_id_to_choice[k]]]
            size == n_samples(n, pos_item_ids)
        IN {[pool |-> Range(item_id_to_choice)] @@ on_draw(d, item_id_to_choice, size)
              : d \in choice(item_id_to_choice, normalize(weights), size)}
        : order \in argsort(copy)}

\* zip(a, b): pairs up to the shorter list.
RECURSIVE zip_padded(_, _)
zip_padded(a, b) ==
    IF a = <<>> /\ b = <<>> THEN <<>>
    ELSE <<<<IF a = <<>> THEN 0 ELSE Head(a), IF b = <<>> THEN 0 ELSE Head(b)>>>>
         \o zip_padded(IF a = <<>> THEN a ELSE Tail(a), IF b = <<>> THEN b ELSE Tail(b))
RECURSIVE zip(_, _)
zip(a, b) ==
    IF a = <<>> \/ b = <<>> THEN <<>>
    ELSE <<<<Head(a), Head(b)>>>> \o zip(Tail(a), Tail(b))

\* The inner loop of create_dataset over one user's pairs.
RECURSIVE user_examples(_, _)
user_examples(user_id, pairs) ==
    IF pairs = <<>> THEN <<>>
    ELSE <<<<user_id, Head(pairs)[1], 1>>, <<user_id, Head(pairs)[2], -1>>>>
         \o user_examples(user_id, Tail(pairs))

RECURSIVE create_dataset(_)
create_dataset(pni) ==
    IF pni = <<>> THEN <<>>
    ELSE user_examples(Head(pni)[1], zip(Head(pni)[2], Head(pni)[3]))
         \o create_dataset(Tail(pni))

\* torch.Generator().manual_seed(42) and the fractions [0.95, 0.05], in percent
manual_seed == 42
train_percent == 95
eval_percent == 5

\* The generator's stream: a fixed function of the seed.  (A linear
\* congruential step stands for the Mersenne twister; what matters to the
\* split is that the stream is determined by the seed alone.)
next_rand(s) == (s * 75 + 74) % 65537

\* torch.randperm(n, generator): a shuffle of 0..n-1 driven by the stream.
RECURSIVE shuffle(_, _, _)
shuffle(perm, i, s) ==
    IF i <= 1 THEN perm
    ELSE LET s2 == next_rand(s)
             j == (s2 % i) + 1
         IN shuffle([perm EXCEPT ![i] = perm[j], ![j] = perm[i]], i - 1, s2)

randperm(n, seed) == shuffle([k \in 1..n |-> k - 1], n, seed)

\* random_split's lengths for fractions: floor(n * frac) each, the remainder
\* handed out one by one in round-robin order starting with the first subset.
split_lengths_floor(n) ==
    <<(n * train_percent) \div 100, (n * eval_percent) \div 100>>
split_lengths(n) ==
    LET a == (n * train_percent) \div 100
        b == (n * eval_percent) \div 100
        remainder == n - (a + b)
    IN <<a + Cardinality({i \in 0..(remainder - 1) : i % 2 = 0}),
         b + Cardinality({i \in 0..(remainder - 1) : i % 2 = 1})>>

\* __train_eval_split: the two Subsets, as lists of indices into the dataset.
train_eval_split(n) ==
    LET lengths == split_lengths(n)
        indices == randperm(lengths[1] + lengths[2], manual_seed)
    IN [train |-> SubSeq(indices, 1, lengths[1]),
        eval |-> SubSeq(indices, lengths[1] + 1, lengths[1] + lengths[2])]

\* ---------------------------------------------------------- DualEncoderModel
\* Ids tried against a table of `size` rows: the rows 0 .. size - 1, the first
\* id past the end, -1 (which Python counts from the end) and -size - 1 (which
\* it rejects).
IdsTried(size) == {-size - 1, -1} \cup 0..size

NoRequest == [op |-> "none", user_ids |-> <<>>, item_ids |-> <<>>, top_k |-> 0]
NoResponse == [error |-> "none", lists |-> <<>>, logits |-> <<>>]
NoModel ==
    /\ user_embeddings = <<>>
    /\ item_embeddings = <<>>
    /\ request = NoRequest
    /\ response = NoResponse

\* rows have embedding_dim = 2 entries
dot(a, b) == a[1] * b[1] + a[2] * b[2]

\* torch.nn.CosineSimilarity: x.y / max(|x||y|, eps).  The value is kept as
\* the fraction <<sign(x.y) * (x.y)^2, |x|^2 |y|^2>>, the cosine's image under
\* the increasing map c -> sign(c) * c^2; a zero vector gives 0.
cs(x, y) ==
    LET d == dot(x, y)
        n == dot(x, x) * dot(y, y)
    IN IF n = 0 THEN <<0, 1>> ELSE <<(IF d < 0 THEN -1 ELSE 1) * d * d, n>>

\* s < t for two such fractions (denominators are positive)
sim_less(s, t) == s[1] * t[2] < t[1] * s[2]

\* tensor[id] with a Python integer: ids -size .. -1 count from the end, any
\* other id outside 0 .. size - 1 raises IndexError.
index_ok(id, size) == -size <= id /\ id < size
row_of(id, size) == IF id < 0 THEN id + size ELSE id

\* torch.nn.Embedding's lookup (F.embedding): only 0 .. size - 1 is accepted.
lookup_ok(id, size) == 0 <= id /\ id < size

\* torch.topk(scores, k).indices: k indices by descending score, the order
\* among equal scores left to the kernel.
RECURSIVE topk_smallest(_, _, _)
topk_smallest(scores, S, k) ==
    IF k = 0 THEN {<<>>}
    ELSE LET best == {x \in S : \A y \in S : ~sim_less(scores[y], scores[x])}
         IN UNION {{<<x>> \o r : r \in topk_smallest(scores, S \ {x}, k - 1)} : x \in best}
RECURSIVE topk(_, _, _)
topk(scores, S, k) ==
    IF k = 0 THEN {<<>>}
    ELSE LET best == {x \in S : \A y \in S : ~sim_less(scores[x], scores[y])}
         IN UNION {{<<x>> \o r : r \in topk(scores, S \ {x}, k - 1)} : x \in best}

\* self.cs(query, self.item_embeddings.weight): one score per item row, rows
\* 0 .. n - 1 of the table at positions 1 .. n of the result
RECURSIVE item_scores_upto(_, _)
item_scores_upto(query, n) ==
    IF n = 0 THEN <<>>
    ELSE Append(item_scores_upto(query, n - 1), cs(query, item_embeddings[n - 1]))

item_scores(query) == item_scores_upto(query, items_size)

\* .indices.tolist(): positions back to row numbers
indices(positions) == [k \in 1..Len(positions) |-> positions[k] - 1]

\* weight[item_ids, :].mean(dim=0), times len(item_ids): the rows are added up;
\* the division by the (positive) count does not change any cosine.
RECURSIVE mean_times_len(_)
mean_times_len(item_ids) ==
    LET row == item_embeddings[row_of(Head(item_ids), items_size)]
    IN IF Len(item_ids) = 1 THEN row
       ELSE LET rest == mean_times_len(Tail(item_ids))
            IN <<row[1] + rest[1], row[2] + rest[2]>>

\* No call changes the tables, so every call starts from the state the model
\* was constructed in: one call is followed from each such state.
Idle == request = NoRequest

\* The lists recommend_topk_by_user_ids can build for user_ids[from..]
RECURSIVE by_user_lists(_, _, _)
by_user_lists(user_ids, from, top_k) ==
    IF from > Len(user_ids) THEN {<<>>}
    ELSE LET query == user_embeddings[row_of(user_ids[from], users_size)]
             scores == item_scores(query)
         IN {<<indices(l)>> \o rest : l \in topk(scores, DOMAIN scores, top_k),
                                      rest \in by_user_lists(user_ids, from + 1, top_k)}

RecommendTopkByUserIds(user_ids, top_k) ==
    /\ Idle
    /\ request' = [op |-> "by_user", user_ids |-> user_ids, item_ids |-> <<>>, top_k |-> top_k]
    /\ IF \E k \in 1..Len(user_ids) : ~index_ok(user_ids[k], users_size)
       THEN response' = [NoResponse EXCEPT !.error = "IndexError"]
       ELSE IF top_k > items_size
       THEN response' = [NoResponse EXCEPT !.error = "RuntimeError"]
       ELSE \E ls \in by_user_lists(user_ids, 1, top_k) :
               response' = [NoResponse EXCEPT !.lists = ls]
    /\ UNCHANGED <<dataVars, user_embeddings, item_embeddings>>

RecommendTopkByItemIds(item_ids, top_k) ==
    /\ Idle
    /\ request' = [op |-> "by_item", user_ids |-> <<>>, item_ids |-> item_ids, top_k |-> top_k]
    /\ IF \E k \in 1..Len(item_ids) : ~index_ok(item_ids[k], items_size)
       THEN response' = [NoResponse EXCEPT !.error = "IndexError"]
       ELSE IF top_k > items_size
       THEN response' = [NoResponse EXCEPT !.error = "RuntimeError"]
       ELSE LET scores == item_scores(mean_times_len(item_ids))
            IN \E l \in topk(scores, DOMAIN scores, top_k) :
                  response' = [NoResponse EXCEPT !.lists = <<indices(l)>>]
    /\ UNCHANGED <<dataVars, user_embeddings, item_embeddings>>

\* forward on a batch of one (user_id, item_id) pair: the logits
Forward(user_id, item_id) ==
    /\ Idle
    /\ request' = [op |-> "forward", user_ids |-> <<user_id>>, item_ids |-> <<item_id>>,
                   top_k |-> 0]
    /\ IF ~lookup_ok(user_id, users_size) \/ ~lookup_ok(item_id, items_size)
       THEN response' = [NoResponse EXCEPT !.error = "IndexError"]
       ELSE response' = [NoResponse EXCEPT
                            !.logits = <<cs(user_embeddings[user_id], item_embeddings[item_id])>>]
    /\ UNCHANGED <<dataVars, user_embeddings, item_embeddings>>

\* A history of one or two items for the cold-start query.
ItemQueries ==
    {<<a>> : a \in IdsTried(items_size)}
        \cup {<<a, b>> : a \in IdsTried(items_size), b \in IdsTried(items_size)}

InitModel ==
    /\ user_embeddings \in [0..(users_size - 1) -> UserVecs]
    /\ item_embeddings \in [0..(items_size - 1) -> ItemVecs]
    /\ request = NoRequest
    /\ response = NoResponse
    /\ interactions = <<>>
    /\ freq_margin = <<1, 1>>
    /\ neg_per_sample = 0
    /\ pc = "start"
    /\ freq_dist = <<>>
    /\ pos_interactions = <<>>
    /\ tasks = <<>>
    /\ pos_neg_interactions = <<>>
    /\ dataset = <<>>
    /\ train_eval = NoSplit
    /\ prev = <<>>

NextModel ==
    \/ \E user_ids \in SeqsUpTo(IdsTried(users_size), MaxUserIds) \ {<<>>},
          top_k \in 1..(items_size + 1) : RecommendTopkByUserIds(user_ids, top_k)
    \/ \E item_ids \in ItemQueries,
          top_k \in 1..(items_size + 1) : RecommendTopkByItemIds(item_ids, top_k)
    \/ \E user_id \in IdsTried(users_size), item_id \in IdsTried(items_size) :
          Forward(user_id, item_id)

SpecModel == InitModel /\ [][NextModel]_vars

\* ------------------------------------------------------------------ actions
NewTask == [pc |-> "submitted", copy |-> <<>>, pool |-> {}, negs |-> <<>>, printed |-> Silent]

\* split -> make_negative_samples: the distributions are built, then one task
\* per user is handed to the pool.
MakeNegativeSamples ==
    /\ pc = "start"
    /\ LET r == make_pos_distributions(interactions)
       IN /\ freq_dist' = r.freq_dist
          /\ pos_interactions' = r.pos_interactions
          /\ tasks' = [t \in 1..Len(r.pos_interactions) |-> NewTask]
    /\ pc' = "sampling"
    /\ UNCHANGED <<interactions, freq_margin, neg_per_sample, pos_neg_interactions,
                   dataset, train_eval, prev, modelVars>>

\* neg_choice line 261: freq_dist_copy = freq_dist.copy()
TaskCopy(t) ==
    /\ pc = "sampling"
    /\ tasks[t].pc = "submitted"
    /\ tasks' = [tasks EXCEPT ![t].pc = "copied", ![t].copy = freq_dist]
    /\ UNCHANGED <<interactions, freq_margin, neg_per_sample, pc, freq_dist,
                   pos_interactions, pos_neg_interactions, dataset, train_eval, prev, modelVars>>

\* neg_choice lines 262-263: the positives' weights are zeroed in the copy
TaskZeroShared(t) ==
    /\ pc = "sampling"
    /\ tasks[t].pc = "copied"
    /\ freq_dist' = zero_out(freq_dist, distinct(pos_interactions[t][2]))
    /\ tasks' = [tasks EXCEPT ![t].pc = "zeroed",
                              ![t].copy = zero_out(freq_dist, distinct(pos_interactions[t][2]))]
    /\ UNCHANGED <<interactions, freq_margin, neg_per_sample, pc,
                   pos_interactions, pos_neg_interactions, dataset, train_eval, prev, modelVars>>
TaskZero(t) ==
    /\ pc = "sampling"
    /\ tasks[t].pc = "copied"
    /\ tasks' = [tasks EXCEPT ![t].pc = "zeroed",
                              ![t].copy = zero_out(tasks[t].copy, distinct(pos_interactions[t][2]))]
    /\ UNCHANGED <<interactions, freq_margin, neg_per_sample, pc, freq_dist,
                   pos_interactions, pos_neg_interactions, dataset, train_eval, prev, modelVars>>

\* neg_choice lines 264-275: cutoff, normalisation, draw or fallback
TaskDraw(t) ==
    /\ pc = "sampling"
    /\ tasks[t].pc = "zeroed"
    /\ \E o \in neg_choice_tail(tasks[t].copy, pos_interactions[t][2], freq_margin, neg_per_sample) :
         tasks' = [tasks EXCEPT ![t].pc = IF o.returned THEN "done" ELSE "raised",
                                   ![t].pool = o.pool,
                                   ![t].negs = o.negs,
                                   ![t].printed = o.printed]
    /\ UNCHANGED <<interactions, freq_margin, neg_per_sample, pc, freq_dist,
                   pos_interactions, pos_neg_interactions, dataset, train_eval, prev, modelVars>>

\* list(pool.map(...)) yields the triples in submission order once every task
\* has ended (an exception of a task is re-raised here); create_dataset follows.
JoinAndCreateDataset ==
    /\ pc = "sampling"
    /\ \A t \in DOMAIN tasks : tasks[t].pc \in {"done", "raised"}
    /\ IF \E t \in DOMAIN tasks : tasks[t].pc = "raised"
       THEN /\ pc' = "raised"
            /\ UNCHANGED <<pos_neg_interactions, dataset>>
       ELSE /\ pos_neg_interactions' =
                 [t \in 1..Len(tasks) |->
                     <<pos_interactions[t][1], pos_interactions[t][2], tasks[t].negs>>]
            /\ dataset' = create_dataset(pos_neg_interactions')
            /\ pc' = "built"
    /\ UNCHANGED <<interactions, freq_margin, neg_per_sample, freq_dist,
                   pos_interactions, tasks, train_eval, prev, modelVars>>

\* split -> __train_eval_split
TrainEvalSplit ==
    /\ pc = "built"
    /\ train_eval' = train_eval_split(Len(dataset))
    /\ pc' = "done"
    /\ UNCHANGED <<interactions, freq_margin, neg_per_sample, freq_dist,
                   pos_interactions, tasks, pos_neg_interactions, dataset, prev,
                   modelVars>>

\* A second call of split on the same object with the same arguments: what the
\* first call returned is kept for comparison, everything else is recomputed.
SplitAgain ==
    /\ pc = "done"
    /\ prev = <<>>
    /\ prev' = <<[pools |-> [t \in DOMAIN tasks |-> tasks[t].pool],
                pos_neg_interactions |-> pos_neg_interactions,
                dataset |-> dataset,
                train_eval |-> train_eval]>>
    /\ pc' = "start"
    /\ freq_dist' = <<>>
    /\ pos_interactions' = <<>>
    /\ tasks' = <<>>
    /\ pos_neg_interactions' = <<>>
    /\ dataset' = <<>>
    /\ train_eval' = NoSplit
    /\ UNCHANGED <<interactions, freq_margin, neg_per_sample, modelVars>>

Init ==
    /\ interactions \in SeqsUpTo(UserIds \X ItemIds, MaxInteractions)
    /\ freq_margin \in FreqMargins
    /\ neg_per_sample \in 0..MaxNegPerSample
    /\ pc = "start"
    /\ freq_dist = <<>>
    /\ pos_interactions = <<>>
    /\ tasks = <<>>
    /\ pos_neg_interactions = <<>>
    /\ dataset = <<>>
    /\ train_eval = NoSplit
    /\ prev = <<>>
    /\ NoModel

Next ==
    \/ MakeNegativeSamples
    \/ \E t \in DOMAIN tasks : TaskCopy(t)
    \/ \E t \in DOMAIN tasks : TaskZero(t)
    \/ \E t \in DOMAIN tasks : TaskDraw(t)
    \/ JoinAndCreateDataset
    \/ TrainEvalSplit

Spec == Init /\ [][Next]_vars

\* split called twice in a row
NextTwice == Next \/ SplitAgain

SpecTwice == Init /\ [][NextTwice]_vars

\* The train/eval split on its own: any example collection of up to
\* MaxExamples examples (only its length matters to the split).
InitSplit ==
    /\ \E n \in 0..MaxExamples :
         dataset = [k \in 1..n |-> <<0, 0, IF k % 2 = 1 THEN 1 ELSE -1>>]
    /\ pc = "built"
    /\ interactions = <<>>
    /\ freq_margin = <<1, 1>>
    /\ neg_per_sample = 0
    /\ freq_dist = <<>>
    /\ pos_interactions = <<>>
    /\ tasks = <<>>
    /\ pos_neg_interactions = <<>>
    /\ train_eval = NoSplit
    /\ prev = <<>>
    /\ NoModel

SpecSplit == InitSplit /\ [][TrainEvalSplit]_vars

\* ------------------------------------------------------------------- claims
\* What each finished neg_choice call was asked for.
Positives(t) == distinct(pos_interactions[t][2])
Requested(t) == neg_per_sample * Cardinality(Positives(t))
Candidates(t) == tasks[t].pool \ Positives(t)
Returned == {t \in DOMAIN tasks : tasks[t].pc = "done"}
NoRepeat(l) == Cardinality(Range(l)) = Len(l)

\* C1: whenever the pool left after the freq_margin cutoff holds at least
\* n * |distinct(P)| items outside P, neg_choice returns exactly that many item
\* ids, none of them in P and none of them twice.
C1_FeasibleDraw ==
    \A t \in Returned :
        Cardinality(Candidates(t)) >= Requested(t)
            => /\ Len(tasks[t].negs) = Requested(t)
               /\ Range(tasks[t].negs) \cap Positives(t) = {}
               /\ NoRepeat(tasks[t].negs)

C1_Witness ==
    \E t \in Returned :
        /\ Requested(t) >= 2
        /\ Cardinality(Candidates(t)) >= Requested(t)
        /\ Len(tasks[t].negs) = Requested(t)

\* C2: when more samples are requested than there are candidates to draw from
\* without replacement, neg_choice does not raise: it returns the sentinel id 0
\* repeated to the requested length, and prints the condition.
C2_InfeasibleFallsBack ==
    /\ pc # "raised"
    /\ \A t \in DOMAIN tasks :
          /\ tasks[t].pc # "raised"
          /\ (t \in Returned /\ Requested(t) > Cardinality(Candidates(t)))
                => /\ tasks[t].negs = Repeat(0, Requested(t))
                   /\ tasks[t].printed # Silent

C2_Witness ==
    \E t \in Returned :
        /\ Requested(t) > Cardinality(Candidates(t))
        /\ Len(tasks[t].negs) >= 2

\* C3: two calls of split on the same data with the same arguments give the
\* same negatives for every user, the same example order and the same
\* train/eval partition (the second call's argsort taken to order equal weights
\* as the first call's did).
C3_SplitRepeats ==
    (/\ pc = "done"
     /\ prev # <<>>
     /\ prev[1].pools = [t \in DOMAIN tasks |-> tasks[t].pool])
        => /\ prev[1].pos_neg_interactions = pos_neg_interactions
           /\ prev[1].dataset = dataset
           /\ prev[1].train_eval = train_eval

\* C4: the train and eval subsets are disjoint, every example index is in
\* exactly one of them, and their sizes are 95% and 5% of N within rounding.
C4_Partition ==
    pc = "done" =>
        LET N == Len(dataset)
            tr == train_eval.train
            ev == train_eval.eval
        IN /\ Range(tr) \cap Range(ev) = {}
           /\ Range(tr) \cup Range(ev) = 0..(N - 1)
           /\ NoRepeat(tr) /\ NoRepeat(ev)
           /\ Len(tr) + Len(ev) = N
           /\ 100 * Len(tr) - 95 * N < 100 /\ 95 * N - 100 * Len(tr) < 100
           /\ 100 * Len(ev) - 5 * N < 100 /\ 5 * N - 100 * Len(ev) < 100

C4_Witness ==
    /\ pc = "done"
    /\ Len(train_eval.eval) >= 2
    /\ Len(dataset) % 20 # 0

\* The query a request's list is ranked against, and what the claim asks of a
\* list of top_k items for it.
Similarity(query, i) == cs(query, item_embeddings[i])
ItemsSum(ids) ==
    <<SumSeq([j \in 1..Len(ids) |-> item_embeddings[ids[j]][1]]),
      SumSeq([j \in 1..Len(ids) |-> item_embeddings[ids[j]][2]])>>
RankedTopK(l, query, k) ==
    /\ Len(l) = k
    /\ NoRepeat(l)
    /\ Range(l) \subseteq ItemIds
    /\ \A a \in 1..k : \A b \in a..k :
          ~sim_less(Similarity(query, l[a]), Similarity(query, l[b]))
    /\ \A in \in Range(l) : \A out \in ItemIds \ Range(l) :
          ~sim_less(Similarity(query, in), Similarity(query, out))
Known(ids, size) == \A j \in 1..Len(ids) : ids[j] \in 0..(size - 1)

\* C5: for 1 <= top_k <= items_size, recommend_topk_by_user_ids gives each
\* known user id a list of top_k distinct item ids in range, in descending
\* similarity to that user's row, and recommend_topk_by_item_ids gives the same
\* for the mean of the given items' rows; no item left out is strictly more
\* similar to the query than one in the list.
C5_TopK ==
    (request.op \in {"by_user", "by_item"} /\ request.top_k \in 1..items_size) =>
        /\ (request.op = "by_user" /\ Known(request.user_ids, users_size))
              => /\ response.error = "none"
                 /\ Len(response.lists) = Len(request.user_ids)
                 /\ \A j \in 1..Len(request.user_ids) :
                       RankedTopK(response.lists[j], user_embeddings[request.user_ids[j]],
                                  request.top_k)
        /\ (request.op = "by_item" /\ Known(request.item_ids, items_size))
              => /\ response.error = "none"
                 /\ Len(response.lists) = 1
                 /\ RankedTopK(response.lists[1], ItemsSum(request.item_ids), request.top_k)

C5_Witness ==
    /\ request.op = "by_item"
    /\ Len(request.item_ids) = 2
    /\ request.item_ids[1] # request.item_ids[2]
    /\ Known(request.item_ids, items_size)
    /\ request.top_k = 2
    /\ response.error = "none"
    /\ Len(response.lists[1]) = 2

\* C6: a top-k or scoring request naming a user id outside [0, users_size) or
\* an item id outside [0, items_size) ends in an error.
C6_OutOfRangeFails ==
    (/\ request.op # "none"
     /\ ~(Known(request.user_ids, users_size) /\ Known(request.item_ids, items_size)))
        => response.error = "IndexError"

\* The pairs the k-th triple should give, and where its examples should start.
PairsOf(k) == Min(Len(pos_neg_interactions[k][2]), Len(pos_neg_interactions[k][3]))
Offset(k) == SumSeq([j \in 1..(k - 1) |-> 2 * PairsOf(j)])
Built == pc \in {"built", "done"}

\* C7: create_dataset pairs each user's positives and negatives by position;
\* for every pair, in input order, (user, positive, +1) is followed at once by
\* (user, negative, -1); exactly min(len(positives), len(negatives)) pairs are
\* emitted per user, users in input order.
C7_TruncatingZip ==
    Built =>
        /\ Len(dataset) = Offset(Len(pos_neg_interactions) + 1)
        /\ \A k \in 1..Len(pos_neg_interactions) : \A j \in 1..PairsOf(k) :
              /\ dataset[Offset(k) + 2 * j - 1] =
                    <<pos_neg_interactions[k][1], pos_neg_interactions[k][2][j], 1>>
              /\ dataset[Offset(k) + 2 * j] =
                    <<pos_neg_interactions[k][1], pos_neg_interactions[k][3][j], -1>>

C7_Witness ==
    /\ Built
    /\ Len(pos_neg_interactions) = 2
    /\ \E k \in 1..2 : Len(pos_neg_interactions[k][2]) < Len(pos_neg_interactions[k][3])
    /\ Len(dataset) >= 4

\* ceil(freq_margin * items_size), as the claim has it
CeilMarginNum == (items_size * freq_margin[1] + freq_margin[2] - 1) \div freq_margin[2]
\* how many items outweigh x once the positives are zeroed
Outweighing(t, x) == Cardinality({y \in ItemIds : tasks[t].copy[y] > tasks[t].copy[x]})

\* C8: a feasible draw returns only items among the top
\* ceil(freq_margin * items_size) by weight, ranked after the excluded ids'
\* weights are zeroed.
C8_DrawnFromTopCeil ==
    \A t \in Returned :
        tasks[t].printed = Silent =>
            \A x \in Range(tasks[t].negs) : Outweighing(t, x) < CeilMarginNum

\* The frequency array and positives as the interaction log determines them.
CountOf(i) == Cardinality({k \in 1..Len(interactions) : interactions[k][2] = i})
LogOf(u) == {k \in 1..Len(interactions) : interactions[k][1] = u}
Active == {u \in UserIds : LogOf(u) # {}}
TripleOf(u) == CHOOSE k \in 1..Len(pos_neg_interactions) : pos_neg_interactions[k][1] = u

\* C9: under every interleaving of the pool's tasks the shared frequency array
\* stays as make_pos_distributions built it, each task zeroes exactly its own
\* user's positives in its own copy, and the result holds one triple per
\* distinct user with that user's positives and negatives drawn with exactly
\* those positives excluded.
C9_TasksIsolated ==
    /\ pc # "start" => freq_dist = [i \in ItemIds |-> 1 + CountOf(i)]
    /\ \A t \in DOMAIN tasks :
          tasks[t].pc \in {"zeroed", "done"} =>
              /\ tasks[t].copy =
                    [i \in ItemIds |-> IF i \in Positives(t) THEN 0 ELSE 1 + CountOf(i)]
              /\ Positives(t) = {interactions[k][2] : k \in LogOf(pos_interactions[t][1])}
    /\ Built =>
          /\ Len(pos_neg_interactions) = Cardinality(Active)
          /\ \A u \in Active :
                /\ Cardinality({k \in 1..Len(pos_neg_interactions) :
                                   pos_neg_interactions[k][1] = u}) = 1
                /\ Range(pos_neg_interactions[TripleOf(u)][2]) =
                      {interactions[k][2] : k \in LogOf(u)}
                /\ Len(pos_neg_interactions[TripleOf(u)][2]) = Cardinality(LogOf(u))
                /\ pos_neg_interactions[TripleOf(u)][3] = tasks[TripleOf(u)].negs
                /\ tasks[TripleOf(u)].printed = Silent =>
                      \A x \in Range(tasks[TripleOf(u)].negs) :
                          /\ x \notin {interactions[k][2] : k \in LogOf(u)}
                          /\ x \in tasks[TripleOf(u)].pool

C9_Witness ==
    /\ pc = "sampling"
    /\ Len(tasks) = 2
    /\ tasks[1].pc = "copied"
    /\ tasks[2].pc = "zeroed"
    /\ Positives(1) # Positives(2)

\* A user's examples of one label, and the user's distinct items.
Labelled(u, label) ==
    Cardinality({k \in 1..Len(dataset) : dataset[k][1] = u /\ dataset[k][3] = label})
DistinctItems(u) == {interactions[k][2] : k \in LogOf(u)}

\* C10: for every user the +1 examples and the -1 examples are equally many:
\* min(the user's interactions counted with repeats, neg_per_sample * the
\* user's distinct items).
C10_Balanced ==
    Built =>
        \A u \in UserIds :
            /\ Labelled(u, 1) = Labelled(u, -1)
            /\ Labelled(u, 1) =
                  Min(Cardinality(LogOf(u)), neg_per_sample * Cardinality(DistinctItems(u)))

C10_Witness ==
    /\ Built
    /\ neg_per_sample >= 1
    /\ \E u \in UserIds :
          /\ Cardinality(LogOf(u)) > neg_per_sample * Cardinality(DistinctItems(u))
          /\ Labelled(u, 1) = neg_per_sample * Cardinality(DistinctItems(u))

====
